---- MODULE Spec2Model ----
(***************************************************************************)
(* Model of kaldi/src/parser.rs: the nom-based parser of the Kaldi nnet3   *)
(* text format.                                                            *)
(*                                                                         *)
(* A byte slice is a sequence of one-character strings.  A parser is an    *)
(* operator P(s, p): s is the whole slice, p the 1-based index of the next *)
(* unread byte (the Rust sub-slice i is s[p..]).  It returns               *)
(*    [st |-> status, pos |-> index after what was consumed, val |-> ...]  *)
(* where status is                                                         *)
(*    "Ok"       Ok((rest, value))                                         *)
(*    "Error"    Err(nom::Err::Error): recoverable, alt/many0 move on      *)
(*    "Failure"  Err(nom::Err::Failure): raised by cut(), never recovered  *)
(*    "Panic"    the thread panicked (unwrap on Err): the call never       *)
(*               returns a value                                           *)
(***************************************************************************)
EXTENDS Integers, Sequences, FiniteSets, TLC

VARIABLES slice, meta, op, out

vars == <<slice, meta, op, out>>

----------------------------------------------------------------------------
(* Byte classes of nom::character                                          *)

Digit == {"0", "1", "2", "3", "4", "5", "6", "7", "8", "9"}

Alpha == {"a", "b", "c", "d", "e", "f", "g", "h", "i", "j", "k", "l", "m",
          "n", "o", "p", "q", "r", "s", "t", "u", "v", "w", "x", "y", "z",
          "A", "B", "C", "D", "E", "F", "G", "H", "I", "J", "K", "L", "M",
          "N", "O", "P", "Q", "R", "S", "T", "U", "V", "W", "X", "Y", "Z"}

Space == {" ", "\t"}

MultiSpace == {" ", "\t", "\r", "\n"}

(* A byte that is valid in no UTF-8 sequence, as one symbol.               *)
InvalidByte == "0xFF"

Ok(p, v) == [st |-> "Ok", pos |-> p, val |-> v]

Error(p) == [st |-> "Error", pos |-> p, val |-> <<>>]

Failure(p) == [st |-> "Failure", pos |-> p, val |-> <<>>]

Panic(p) == [st |-> "Panic", pos |-> p, val |-> <<>>]

(* The byte at p, or "" at the end of the slice.                           *)
At(s, p) == IF p >= 1 /\ p <= Len(s) THEN s[p] ELSE ""

(* take_while / space0 / digit0...: index after the longest run of bytes   *)
(* of class C starting at p.                                               *)
RECURSIVE SkipWhile(_, _, _)
SkipWhile(s, p, C) == IF At(s, p) \in C THEN SkipWhile(s, p + 1, C) ELSE p

(* The ? operator and the sequencing combinators (pair, tuple, delimited): *)
(* a step that did not succeed is the result; otherwise K goes on from     *)
(* what the step returned.                                                 *)
AndThen(r, K(_)) == IF r.st = "Ok" THEN K(r) ELSE r

(* alt: the next alternative is tried on an Error only.                    *)
OrElse(r, next) == IF r.st = "Error" THEN next ELSE r

(* One round of many0 and of separated_list (nom 5), r the result of the   *)
(* element parser and p where the round began: an Error ends the list at   *)
(* p, any other error is passed on, an element that left the input at p    *)
(* is an Error of the combinator, and otherwise K goes on after it.        *)
list_item(p, acc, r, K(_)) ==
    IF r.st = "Error" THEN Ok(p, acc)
    ELSE IF r.st # "Ok" THEN r
    ELSE IF r.pos = p THEN Error(p)
    ELSE K(r)

(* tag(t): the bytes at p are exactly t.                                   *)
tag(s, p, t) ==
    IF p + Len(t) - 1 <= Len(s) /\ SubSeq(s, p, p + Len(t) - 1) = t
    THEN Ok(p + Len(t), t)
    ELSE Error(p)

space0(s, p) == SkipWhile(s, p, Space)

multispace0(s, p) == SkipWhile(s, p, MultiSpace)

(* space1: one or more spaces or tabs.                                     *)
space1(s, p) ==
    IF SkipWhile(s, p, Space) > p THEN Ok(SkipWhile(s, p, Space), <<>>) ELSE Error(p)

(* spaced(it) = delimited(space0, it, space0)                              *)
spaced(it(_, _), s, p) ==
    AndThen(it(s, space0(s, p)), LAMBDA r : Ok(space0(s, r.pos), r.val))

(* multispaced(it) = delimited(multispace0, it, multispace0)               *)
multispaced(it(_, _), s, p) ==
    AndThen(it(s, multispace0(s, p)), LAMBDA r : Ok(multispace0(s, r.pos), r.val))

(* The decimal value of a run of digits.                                   *)
DigitVal(c) ==
    CASE c = "0" -> 0 [] c = "1" -> 1 [] c = "2" -> 2 [] c = "3" -> 3
      [] c = "4" -> 4 [] c = "5" -> 5 [] c = "6" -> 6 [] c = "7" -> 7
      [] c = "8" -> 8 [] c = "9" -> 9

RECURSIVE DigitsVal(_, _, _, _)
DigitsVal(s, from, to, acc) ==
    IF from > to THEN acc
    ELSE DigitsVal(s, from + 1, to, acc * 10 + DigitVal(s[from]))

Negate(neg, x) == IF neg THEN 0 - x ELSE x

----------------------------------------------------------------------------
(* Numbers.  A float value m * 10^e is kept as [m, e] with m not a         *)
(* multiple of 10 (or m = 0, e = 0): "3" and "3.0" are the same value.     *)

RECURSIVE Normalize(_, _)
Normalize(m, e) ==
    IF m = 0 THEN [m |-> 0, e |-> 0]
    ELSE IF m % 10 = 0 THEN Normalize(m \div 10, e + 1)
    ELSE [m |-> m, e |-> e]

(* str::parse::<f32> of a recognized float: the sign is at p, the integer  *)
(* digits are p1..dot-1, the fraction digits dot+1..mEnd-1, and expo is    *)
(* the decimal exponent.                                                   *)
float_value(s, p, p1, dot, mEnd, expo) ==
    Normalize(Negate(At(s, p) = "-",
                     DigitsVal(s, dot + 1, mEnd - 1, DigitsVal(s, p1, dot - 1, 0))),
              expo - (IF mEnd > dot THEN mEnd - dot - 1 ELSE 0))

(* cut(digit1): an exponent mark without digits is a Failure.              *)
float_exponent_digits(s, p, p1, dot, mEnd, x1, x2) ==
    IF x2 = x1 THEN Failure(x1)
    ELSE Ok(x2, float_value(s, p, p1, dot, mEnd,
                            Negate(At(s, mEnd + 1) = "-", DigitsVal(s, x1, x2 - 1, 0))))

float_exponent_sign(s, p, p1, dot, mEnd, x1) ==
    float_exponent_digits(s, p, p1, dot, mEnd, x1, SkipWhile(s, x1, Digit))

(* The mantissa is s[p1..mEnd-1]; it needs a digit before or after the     *)
(* point.  Then opt(tuple(([eE], opt([+-]), cut(digit1)))).                *)
float_exponent(s, p, p1, dot, mEnd) ==
    IF dot = p1 /\ mEnd <= p1 + 1 THEN Error(p)
    ELSE IF At(s, mEnd) \in {"e", "E"}
    THEN float_exponent_sign(s, p, p1, dot, mEnd,
                             IF At(s, mEnd + 1) \in {"+", "-"} THEN mEnd + 2 ELSE mEnd + 1)
    ELSE Ok(mEnd, float_value(s, p, p1, dot, mEnd, 0))

(* alt((digit1 ('.' digit1?)?, '.' digit1)), d1 the end of the digits at   *)
(* p1.                                                                     *)
float_mantissa(s, p, p1, d1) ==
    float_exponent(s, p, p1, d1,
                   IF d1 > p1
                   THEN (IF At(s, d1) = "." THEN SkipWhile(s, d1 + 1, Digit) ELSE d1)
                   ELSE IF At(s, p1) = "." THEN SkipWhile(s, p1 + 1, Digit)
                   ELSE p1)

float_sign(s, p, p1) == float_mantissa(s, p, p1, SkipWhile(s, p1, Digit))

(* nom::number::complete::float = recognize_float, then str::parse::<f32>: *)
(*   [+-]? (digit1 ('.' digit1?)? | '.' digit1) ([eE] [+-]? cut(digit1))?  *)
float(s, p) == float_sign(s, p, IF At(s, p) \in {"+", "-"} THEN p + 1 ELSE p)

I32Max == 2147483647

(* str::parse::<i32> of sig significant digits ending before d1, hi the    *)
(* value of all of them but the last and lo the last: values outside i32   *)
(* are rejected.                                                           *)
parse_i32(p, neg, d1, sig, hi, lo) ==
    IF \/ sig < 10
       \/ /\ sig = 10
          /\ \/ hi < I32Max \div 10
             \/ hi = I32Max \div 10 /\ lo <= (IF neg THEN 8 ELSE 7)
    THEN Ok(d1, IF neg THEN 0 - hi * 10 - lo ELSE hi * 10 + lo)
    ELSE Error(p)

(* d1: the end of the digits at p1; z: the end of their leading zeros,     *)
(* which do not count towards the magnitude.  str::parse::<i32> rejects    *)
(* "" and "-".                                                             *)
integer_digits(s, p, p1, d1, z) ==
    IF d1 = p1 THEN Error(p)
    ELSE parse_i32(p, p1 > p, d1, d1 - z, DigitsVal(s, z, d1 - 2, 0), DigitVal(At(s, d1 - 1)))

integer_sign(s, p, p1) ==
    integer_digits(s, p, p1, SkipWhile(s, p1, Digit), SkipWhile(s, p1, {"0"}))

(* integer: recognize(pair(opt(tag("-")), take_while(is_digit))), then     *)
(* str::parse::<i32>.                                                      *)
integer(s, p) == integer_sign(s, p, IF At(s, p) = "-" THEN p + 1 ELSE p)

----------------------------------------------------------------------------
(* Tensors: [dt, shape, data], data in row-major order.  Every element is  *)
(* a record [m, e]; dt tells a float from an i32 (m = the integer, e = 0)  *)
(* and from a bool (m = 1 for true, 0 for false).                          *)

ScalarF32(v) == [dt |-> "f32", shape |-> <<>>, data |-> <<v>>]

ScalarI32(n) == [dt |-> "i32", shape |-> <<>>, data |-> <<[m |-> n, e |-> 0]>>]

ScalarBool(b) ==
    [dt |-> "bool", shape |-> <<>>, data |-> <<[m |-> IF b THEN 1 ELSE 0, e |-> 0]>>]

(* tensor1(&[f32])                                                         *)
tensor1(v) == [dt |-> "f32", shape |-> <<Len(v)>>, data |-> v]

(* The loop of a separated_list (nom 5), p the position before the         *)
(* separator and sep its result: an Error of the separator ends the list   *)
(* at p, any other error is passed on, a separator that consumed nothing   *)
(* is an Error of the combinator, and otherwise K goes on after it.        *)
list_separator(p, acc, sep, K(_)) ==
    IF sep.st = "Error" THEN Ok(p, acc)
    ELSE IF sep.st # "Ok" THEN sep
    ELSE IF sep.pos = p THEN Error(p)
    ELSE K(sep)

(* separated_list(space1, float): an Error of the first element gives the  *)
(* empty list; after that, an Error of the separator or of the element     *)
(* after it ends the list BEFORE that separator.                           *)
RECURSIVE FloatListLoop(_, _, _)
FloatListLoop(s, p, acc) ==
    list_separator(p, acc, space1(s, p), LAMBDA sep :
        list_item(p, acc, float(s, sep.pos), LAMBDA f :
            FloatListLoop(s, f.pos, Append(acc, f.val))))

FloatList(s, p) ==
    list_item(p, <<>>, float(s, p), LAMBDA f : FloatListLoop(s, f.pos, <<f.val>>))

(* spaced(tag("\n"))                                                       *)
RowSep(s, p) == spaced(LAMBDA t, q : tag(t, q, <<"\n">>), s, p)

(* separated_list(spaced(tag("\n")), separated_list(space1, float)).  The  *)
(* element parser succeeds on no floats at all without consuming: as FIRST *)
(* element that is the combinator's no-progress Error; after a separator   *)
(* the list has moved on (the element's end is compared with the position  *)
(* before the separator), so the empty row is pushed.                      *)
RECURSIVE RowListLoop(_, _, _)
RowListLoop(s, p, acc) ==
    list_separator(p, acc, RowSep(s, p), LAMBDA sep :
        list_item(p, acc, FloatList(s, sep.pos), LAMBDA f :
            RowListLoop(s, f.pos, Append(acc, f.val))))

RowList(s, p) ==
    list_item(p, <<>>, FloatList(s, p), LAMBDA f : RowListLoop(s, f.pos, <<f.val>>))

(* v.into_iter().flat_map(|v| v.into_iter()).collect()                     *)
RECURSIVE Flatten(_)
Flatten(rows) == IF rows = <<>> THEN <<>> ELSE Head(rows) \o Flatten(Tail(rows))

(* cols = data.len() / lines is a usize division: it panics on lines = 0;  *)
(* into_shape((lines, cols)).unwrap() panics unless lines * cols is        *)
(* data.len().  q is the rest of the input after the literal.              *)
into_shape(p, q, lines, data) ==
    IF lines = 0 THEN Panic(p)
    ELSE IF lines * (Len(data) \div lines) # Len(data) THEN Panic(p)
    ELSE Ok(q, [dt |-> "f32", shape |-> <<lines, Len(data) \div lines>>, data |-> data])

(* matrix: multispaced("["), the rows, multispaced("]"); the row count is  *)
(* the number of rows the list holds.                                      *)
matrix(s, p) ==
    AndThen(multispaced(LAMBDA t, q : tag(t, q, <<"[">>), s, p), LAMBDA o :
        AndThen(RowList(s, o.pos), LAMBDA v :
            AndThen(multispaced(LAMBDA t, q : tag(t, q, <<"]">>), s, v.pos), LAMBDA c :
                into_shape(p, c.pos, Len(v.val), Flatten(v.val)))))

(* vector: spaced("["), separated_list(space1, float), spaced("]")         *)
vector(s, p) ==
    AndThen(spaced(LAMBDA t, q : tag(t, q, <<"[">>), s, p), LAMBDA o :
        AndThen(FloatList(s, o.pos), LAMBDA v :
            AndThen(spaced(LAMBDA t, q : tag(t, q, <<"]">>), s, v.pos), LAMBDA c :
                Ok(c.pos, tensor1(v.val)))))

scalar_integer_first(s, p) ==
    OrElse(AndThen(integer(s, p), LAMBDA n : Ok(n.pos, ScalarI32(n.val))),
        OrElse(AndThen(float(s, p), LAMBDA f : Ok(f.pos, ScalarF32(f.val))),
            OrElse(AndThen(tag(s, p, <<"F">>), LAMBDA t : Ok(t.pos, ScalarBool(FALSE))),
                AndThen(tag(s, p, <<"T">>), LAMBDA t : Ok(t.pos, ScalarBool(TRUE))))))

(* scalar: alt((float, integer, tag("F"), tag("T"))), each mapped to a     *)
(* rank-0 tensor.                                                          *)
scalar(s, p) ==
    OrElse(AndThen(float(s, p), LAMBDA f : Ok(f.pos, ScalarF32(f.val))),
        OrElse(AndThen(integer(s, p), LAMBDA n : Ok(n.pos, ScalarI32(n.val))),
            OrElse(AndThen(tag(s, p, <<"F">>), LAMBDA t : Ok(t.pos, ScalarBool(FALSE))),
                AndThen(tag(s, p, <<"T">>), LAMBDA t : Ok(t.pos, ScalarBool(TRUE))))))

tensor_matrix_first(s, p) == OrElse(matrix(s, p), OrElse(vector(s, p), scalar(s, p)))

(* tensor: alt((scalar, vector, matrix))                                   *)
tensor(s, p) == OrElse(scalar(s, p), OrElse(vector(s, p), matrix(s, p)))

----------------------------------------------------------------------------
(* Tags, names, components                                                 *)

NameChar == Alpha \cup Digit \cup {".", "_", "-"}

(* name: alpha1, then many0(alt((alphanumeric1, ".", "_", "-"))); the      *)
(* recognized bytes are ASCII, so str::from_utf8 cannot fail on them.      *)
name(s, p) ==
    IF At(s, p) \in Alpha
    THEN Ok(SkipWhile(s, p, NameChar), SubSeq(s, p, SkipWhile(s, p, NameChar) - 1))
    ELSE Error(p)

open_no_trim(s, p, t) == tag(s, multispace0(s, p), <<"<">> \o t \o <<">">>)

(* open(t) = multispaced(tuple((tag("<"), tag(t), tag(">"))))              *)
open(s, p, t) == multispaced(LAMBDA u, q : tag(u, q, <<"<">> \o t \o <<">">>), s, p)

close_prefix_only(s, p, t) ==
    AndThen(tag(s, multispace0(s, p), <<"<", "/">> \o t), LAMBDA r :
        IF At(s, SkipWhile(s, r.pos, NameChar)) = ">"
        THEN Ok(multispace0(s, SkipWhile(s, r.pos, NameChar) + 1), <<>>)
        ELSE Error(p))

(* close(t) = multispaced(tuple((tag("</"), tag(t), tag(">"))))            *)
close(s, p, t) == multispaced(LAMBDA u, q : tag(u, q, <<"<", "/">> \o t \o <<">">>), s, p)

(* delimited(tag("<"), name, tag(">"))                                     *)
bracketed_name(s, p) ==
    AndThen(tag(s, p, <<"<">>), LAMBDA o :
        AndThen(name(s, o.pos), LAMBDA n :
            AndThen(tag(s, n.pos, <<">">>), LAMBDA c : Ok(c.pos, n.val))))

(* open_any = multispaced(delimited(tag("<"), name, tag(">")))             *)
open_any(s, p) == multispaced(bracketed_name, s, p)

(* HashMap::insert: the entry of key k becomes v.                          *)
EmptyMap == [x \in {} |-> {}]

insert_keep_first(m, k, v) ==
    [x \in DOMAIN m \cup {k} |-> IF x \in DOMAIN m THEN m[x] ELSE v]

insert(m, k, v) == [x \in DOMAIN m \cup {k} |-> IF x = k THEN v ELSE m[x]]

(* pair(open_any, tensor), mapped to the (name, tensor) pair               *)
attribute(s, p) ==
    AndThen(open_any(s, p), LAMBDA k :
        AndThen(tensor(s, k.pos), LAMBDA v : Ok(v.pos, <<k.val, v.val>>)))

(* many0(attribute): the list of (name, tensor) pairs in input order; it   *)
(* ends, without consuming, at the first Error of the pair.                *)
RECURSIVE attribute_list(_, _, _)
attribute_list(s, p, acc) ==
    list_item(p, acc, attribute(s, p), LAMBDA r :
        attribute_list(s, r.pos, Append(acc, r.val)))

(* attributes.into_iter().collect(): the pairs are inserted in order.      *)
RECURSIVE collect(_, _)
collect(pairs, m) ==
    IF pairs = <<>> THEN m
    ELSE collect(Tail(pairs), insert(m, Head(pairs)[1], Head(pairs)[2]))

(* component: <klass> (<attr> tensor)* </klass>                            *)
component(s, p) ==
    AndThen(open_any(s, p), LAMBDA k :
        AndThen(attribute_list(s, k.pos, <<>>), LAMBDA a :
            AndThen(close(s, a.pos, k.val), LAMBDA c :
                Ok(c.pos, [klass |-> k.val, attributes |-> collect(a.val, EmptyMap)]))))

ComponentNameTag ==
    <<"C", "o", "m", "p", "o", "n", "e", "n", "t", "N", "a", "m", "e">>

NumComponentsTag ==
    <<"N", "u", "m", "C", "o", "m", "p", "o", "n", "e", "n", "t", "s">>

Nnet3Tag == <<"N", "n", "e", "t", "3">>

(* delimited(|i| open(i, "ComponentName"), name, multispace0)              *)
named(s, p) ==
    AndThen(open(s, p, ComponentNameTag), LAMBDA o :
        AndThen(name(s, o.pos), LAMBDA n : Ok(multispace0(s, n.pos), n.val)))

(* component_name = multispaced(delimited(open(..), name, multispace0))    *)
component_name(s, p) == multispaced(named, s, p)

(* n as usize, n an i32: a negative n wraps to 2^64 + n.  The count is     *)
(* only ever compared with the number of loop iterations made, which the   *)
(* length of the slice bounds, so the wrapped value is kept as the largest *)
(* integer TLC holds.                                                      *)
as_usize(n) == IF n < 0 THEN I32Max ELSE n

(* num_components: open("NumComponents"), multispaced(integer)             *)
num_components(s, p) ==
    AndThen(open(s, p, NumComponentsTag), LAMBDA o :
        AndThen(multispaced(integer, s, o.pos), LAMBDA n : Ok(n.pos, as_usize(n.val))))

(* The indices at or after p where the bytes of t stand.                   *)
occurrences(s, p, t) == {q \in p..(Len(s) - Len(t) + 1) : SubSeq(s, q, q + Len(t) - 1) = t}

first_of(hits) == CHOOSE h \in hits : \A g \in hits : h <= g

(* take_until(t), complete: everything before the first occurrence of t   *)
(* at or after p, which is left unread; an Error when there is none.       *)
take_until(s, p, t) ==
    IF occurrences(s, p, t) = {} THEN Error(p)
    ELSE Ok(first_of(occurrences(s, p, t)), SubSeq(s, p, first_of(occurrences(s, p, t)) - 1))

(* std::str::from_utf8                                                     *)
from_utf8(bytes) == \A k \in 1..Len(bytes) : bytes[k] # InvalidByte

Marker == <<"<">> \o NumComponentsTag \o <<">">>

(* map_res(take_until("<NumComponents>"), std::str::from_utf8)             *)
config_text(s, p) ==
    AndThen(take_until(s, p, Marker), LAMBDA t : IF from_utf8(t.val) THEN t ELSE Error(p))

RECURSIVE component_loop(_, _, _, _, _)

component_loop_until_error(s, p, k, n, components) ==
    IF k >= n THEN Ok(p, components)
    ELSE OrElse(AndThen(component_name(s, p), LAMBDA nm :
                    AndThen(component(s, nm.pos), LAMBDA c :
                        component_loop(s, c.pos, k + 1, n, insert(components, nm.val, c.val)))),
                Ok(p, components))

component_loop_one_short(s, p, k, n, components) ==
    IF k + 1 >= n THEN Ok(p, components)
    ELSE AndThen(component_name(s, p), LAMBDA nm :
             AndThen(component(s, nm.pos), LAMBDA c :
                 component_loop(s, c.pos, k + 1, n, insert(components, nm.val, c.val))))

(* The for loop of parse_top_level: iterations k+1..n, each                *)
(* pair(component_name, component) and an insert under the name.           *)
component_loop(s, p, k, n, components) ==
    IF k >= n THEN Ok(p, components)
    ELSE AndThen(component_name(s, p), LAMBDA nm :
             AndThen(component(s, nm.pos), LAMBDA c :
                 component_loop(s, c.pos, k + 1, n, insert(components, nm.val, c.val))))

(* parse_top_level: <Nnet3> config <NumComponents> N component{N} </Nnet3> *)
parse_top_level(s, p) ==
    AndThen(open(s, p, Nnet3Tag), LAMBDA o :
        AndThen(config_text(s, o.pos), LAMBDA t :
            AndThen(num_components(s, t.pos), LAMBDA n :
                AndThen(component_loop(s, n.pos, 0, n.val, EmptyMap), LAMBDA l :
                    AndThen(close(s, l.pos, Nnet3Tag), LAMBDA c :
                        Ok(c.pos, [config_lines |-> t.val, components |-> l.val]))))))

(* config_lines::parse_config: the configuration collaborator, kept as the *)
(* text it is handed.                                                      *)
parse_config(config) == Ok(0, config)

(* What the caller of nnet3 gets: the model, an Err(String) for every nom  *)
(* error, or no value at all after a panic.                                *)
TractResult(r) ==
    IF r.st = "Ok" THEN [st |-> "Ok", val |-> r.val]
    ELSE IF r.st = "Panic" THEN [st |-> "Panic", val |-> <<>>]
    ELSE [st |-> "Err", val |-> <<>>]

nnet3_all_consuming(s) ==
    TractResult(
        AndThen(parse_top_level(s, 1), LAMBDA r :
            IF r.pos # Len(s) + 1 THEN Error(r.pos)
            ELSE AndThen(parse_config(r.val.config_lines), LAMBDA cfg :
                     Ok(r.pos, [config_lines |-> cfg.val, components |-> r.val.components]))))

(* nnet3: the rest of the slice is dropped; every nom error becomes an     *)
(* Err(String).                                                            *)
nnet3(s) ==
    TractResult(
        AndThen(parse_top_level(s, 1), LAMBDA r :
            AndThen(parse_config(r.val.config_lines), LAMBDA cfg :
                Ok(r.pos, [config_lines |-> cfg.val, components |-> r.val.components]))))

----------------------------------------------------------------------------
(* Inputs of the tensor parsers.                                           *)
(*                                                                         *)
(* Two families.  "raw": every byte string of at most MaxRaw bytes over    *)
(* RawAlphabet.  "rows": a bracketed literal laid out from a description   *)
(* (row lengths, white-space style, what precedes the closing bracket),    *)
(* whose floats are taken in turn from Lits, so that what the literal      *)
(* denotes is known without parsing it.                                    *)

MaxRaw == 4

MaxRows == 3

MaxCols == 3

RawAlphabet == {"[", "]", " ", "\n", "3", "0", ".", "-", "F", "T", "e"}

RawInputs == UNION {[1..k -> RawAlphabet] : k \in 0..MaxRaw}

(* Float literals and the values they denote.                              *)
Lits ==
    << [text |-> <<"7", ".", "0">>, val |-> [m |-> 7, e |-> 0]],
       [text |-> <<"-", "2", ".", "5">>, val |-> [m |-> -25, e |-> -1]],
       [text |-> <<"3">>, val |-> [m |-> 3, e |-> 0]],
       [text |-> <<".", "5">>, val |-> [m |-> 5, e |-> -1]] >>

(* The k-th float of a literal, k = 1, 2, ...                              *)
Lit(k, off) == Lits[((k - 1 + off) % Len(Lits)) + 1]

(* White space after "[", between rows, and between the floats of a row.   *)
Styles ==
    << [lead |-> <<" ">>, sep |-> <<"\n">>, gap |-> <<" ">>],
       [lead |-> <<"\n", " ", " ">>, sep |-> <<" ", "\n", " ", " ">>, gap |-> <<" ">>],
       [lead |-> <<>>, sep |-> <<"\n">>, gap |-> <<"\t", " ">>] >>

(* What stands between the last float and "]".                             *)
Trails == << <<" ">>, <<>>, <<"\n">> >>

RECURSIVE RowText(_, _, _, _)
RowText(n, first, off, gap) ==
    IF n = 0 THEN <<>>
    ELSE IF n = 1 THEN Lit(first, off).text
    ELSE Lit(first, off).text \o gap \o RowText(n - 1, first + 1, off, gap)

RECURSIVE Sum(_)
Sum(lens) == IF lens = <<>> THEN 0 ELSE Head(lens) + Sum(Tail(lens))

RECURSIVE RowsText(_, _, _, _)
RowsText(lens, first, off, style) ==
    IF lens = <<>> THEN <<>>
    ELSE RowText(Head(lens), first, off, style.gap)
         \o (IF Len(lens) > 1 THEN style.sep ELSE <<>>)
         \o RowsText(Tail(lens), first + Head(lens), off, style)

Literal(lens, st, tr, off) ==
    <<"[">> \o Styles[st].lead \o RowsText(lens, 1, off, Styles[st]) \o Trails[tr] \o <<"]">>

(* The values of the first n floats of a literal, in input order.          *)
LitVals(n, off) == [k \in 1..n |-> Lit(k, off).val]

RowLens ==
    {<<0>>} \cup UNION {[1..r -> 1..MaxCols] : r \in 1..MaxRows}

InitTensor ==
    /\ op = "none"
    /\ out = <<>>
    /\ \/ /\ slice \in RawInputs
          /\ meta = [kind |-> "raw"]
       \/ \E lens \in RowLens, st \in 1..Len(Styles), tr \in 1..Len(Trails),
             off \in {0, 1} :
             /\ slice = Literal(lens, st, tr, off)
             /\ meta = [kind |-> "rows", lens |-> lens, style |-> st,
                        trail |-> tr, off |-> off]

CallTensor ==
    /\ op = "none"
    /\ op' = "tensor"
    /\ out' = tensor(slice, 1)
    /\ UNCHANGED <<slice, meta>>

CallScalar ==
    /\ op = "none"
    /\ op' = "scalar"
    /\ out' = scalar(slice, 1)
    /\ UNCHANGED <<slice, meta>>

CallVector ==
    /\ op = "none"
    /\ op' = "vector"
    /\ out' = vector(slice, 1)
    /\ UNCHANGED <<slice, meta>>

CallMatrix ==
    /\ op = "none"
    /\ op' = "matrix"
    /\ out' = matrix(slice, 1)
    /\ UNCHANGED <<slice, meta>>

NextTensor == CallTensor \/ CallScalar \/ CallVector \/ CallMatrix

SpecTensor == InitTensor /\ [][NextTensor]_vars

----------------------------------------------------------------------------
(* Properties of the tensor parsers (SpecTensor)                           *)

HasNewline(bytes) == \E k \in 1..Len(bytes) : bytes[k] = "\n"

(* Two results agree: same status, and on success the same value and the   *)
(* same rest of the input.                                                 *)
Same(a, b) ==
    /\ a.st = b.st
    /\ a.st = "Ok" => a.pos = b.pos /\ a.val = b.val

(* What an ordered choice returns: the first result that is not an Error,  *)
(* and an Error when there is none.                                        *)
RECURSIVE FirstMatch(_)
FirstMatch(results) ==
    IF Len(results) = 1 \/ Head(results).st # "Error" THEN Head(results)
    ELSE FirstMatch(Tail(results))

WithVal(r, v) == IF r.st = "Ok" THEN Ok(r.pos, v) ELSE r

(* A literal of the "rows" family written on one line.                     *)
SingleLine ==
    /\ meta.kind = "rows"
    /\ Len(meta.lens) = 1
    /\ ~HasNewline(Styles[meta.style].lead)
    /\ ~HasNewline(Trails[meta.trail])

(* A literal of the "rows" family with r > 1 rows of c >= 1 floats each.   *)
EqualRows ==
    /\ meta.kind = "rows"
    /\ Len(meta.lens) > 1
    /\ \A k \in 1..Len(meta.lens) : meta.lens[k] = meta.lens[1]

(* A literal of the "rows" family with r > 1 rows, not all of one length,  *)
(* and "]" on the line of the last row.                                    *)
RaggedRows ==
    /\ meta.kind = "rows"
    /\ Len(meta.lens) > 1
    /\ \E k \in 1..Len(meta.lens) : meta.lens[k] # meta.lens[1]
    /\ ~HasNewline(Trails[meta.trail])

Matrix(r, c, data) == [dt |-> "f32", shape |-> <<r, c>>, data |-> data]

(* C4 (as claimed): tensor turns a one-line bracketed list of k floats     *)
(* into the rank-1 tensor of those k floats in input order, and a literal  *)
(* of r > 1 newline-separated rows of c floats each into the rank-2 tensor *)
(* of shape r x c holding the rows in order.                               *)
C4_LineStructure ==
    op = "tensor" /\ meta.kind = "rows" =>
        /\ SingleLine =>
               /\ out.st = "Ok"
               /\ out.val = tensor1(LitVals(meta.lens[1], meta.off))
        /\ EqualRows =>
               /\ out.st = "Ok"
               /\ out.val = Matrix(Len(meta.lens), meta.lens[1],
                                   LitVals(Sum(meta.lens), meta.off))

(* C5 (as claimed): tensor returns the first match of matrix, then vector, *)
(* then scalar, tried in that order at the same position.                  *)
C5_MatrixVectorScalar ==
    op = "tensor" =>
        Same(out, FirstMatch(<<matrix(slice, 1), vector(slice, 1), scalar(slice, 1)>>))

(* C5 (amended): tensor returns the first match of scalar, then vector,    *)
(* then matrix, tried in that order at the same position; a literal that   *)
(* both vector and matrix accept therefore comes out as the vector.        *)
C5_ScalarVectorMatrix ==
    op = "tensor" =>
        /\ Same(out, FirstMatch(<<scalar(slice, 1), vector(slice, 1), matrix(slice, 1)>>))
        /\ vector(slice, 1).st = "Ok" => Len(out.val.shape) = 1

C5_Witness ==
    /\ op = "tensor"
    /\ vector(slice, 1).st = "Ok"
    /\ matrix(slice, 1).st = "Ok"
    /\ matrix(slice, 1).val # vector(slice, 1).val
    /\ out.val = vector(slice, 1).val

(* C6: on a multi-row literal with rows of unequal lengths the matrix      *)
(* parser neither fails nor aborts; it returns the rank-2 tensor of shape  *)
(* rows x (floats / rows) holding the floats in input order.               *)
C6_RaggedAlwaysReshaped ==
    op = "matrix" /\ RaggedRows =>
        /\ out.st = "Ok"
        /\ out.val.shape = <<Len(meta.lens), Sum(meta.lens) \div Len(meta.lens)>>
        /\ out.val.data = LitVals(Sum(meta.lens), meta.off)

(* C7: scalar returns the first match of float, integer, "F", "T", in that *)
(* order: a literal the integer grammar accepts and the float scanner      *)
(* accepts is a float (no scalar is ever an i32), "3" and "3.0" are the    *)
(* float 3, "F" is false and "T" is true.                                  *)
C7_ScalarOrder ==
    op = "scalar" =>
        /\ Same(out, FirstMatch(<<WithVal(float(slice, 1), ScalarF32(float(slice, 1).val)),
                                  WithVal(integer(slice, 1), ScalarI32(integer(slice, 1).val)),
                                  WithVal(tag(slice, 1, <<"F">>), ScalarBool(FALSE)),
                                  WithVal(tag(slice, 1, <<"T">>), ScalarBool(TRUE))>>))
        /\ out.st = "Ok" => out.val.dt \in {"f32", "bool"}
        /\ integer(slice, 1).st = "Ok" /\ float(slice, 1).st = "Ok" =>
               out.st = "Ok" /\ out.val.dt = "f32"
        /\ slice \in {<<"3">>, <<"3", ".", "0">>} =>
               out = Ok(Len(slice) + 1, ScalarF32([m |-> 3, e |-> 0]))
        /\ slice = <<"F">> => out = Ok(2, ScalarBool(FALSE))
        /\ slice = <<"T">> => out = Ok(2, ScalarBool(TRUE))

C7_Witness ==
    /\ op = "scalar"
    /\ slice = <<"3">>
    /\ integer(slice, 1).st = "Ok"
    /\ out.st = "Ok"
    /\ out.val.dt = "f32"

----------------------------------------------------------------------------
(* Inputs of the component parser: <open> (<attr> tensor)* </close>, the   *)
(* opening and the closing tag name drawn independently.                   *)

MaxAttrs == 2

KlassNames ==
    << <<"F", "o", "o">>, <<"f", "o", "o">>,
       <<"F", "o">>, <<"B", "a", "r">> >>

AttrNames == << <<"P">>, <<"Q">> >>

(* Tensor literals and the tensors they denote.                            *)
AttrTensors ==
    << [text |-> <<"3">>, val |-> ScalarF32([m |-> 3, e |-> 0])],
       [text |-> <<"[", " ", "7", ".", "0", " ", "-", "2", ".", "5", " ",
                   "]">>,
        val |-> tensor1(<<[m |-> 7, e |-> 0], [m |-> -25, e |-> -1]>>)],
       [text |-> <<"T">>, val |-> ScalarBool(TRUE)] >>

AttrChoices == (1..Len(AttrNames)) \X (1..Len(AttrTensors))

AttrSeqs == UNION {[1..k -> AttrChoices] : k \in 0..MaxAttrs}

RECURSIVE AttrsText(_)
AttrsText(attrs) ==
    IF attrs = <<>> THEN <<>>
    ELSE <<"<">> \o AttrNames[Head(attrs)[1]] \o <<">", " ">>
         \o AttrTensors[Head(attrs)[2]].text \o <<"\n">> \o AttrsText(Tail(attrs))

ComponentText(o, c, attrs) ==
    <<"<">> \o KlassNames[o] \o <<">", " ">> \o AttrsText(attrs)
    \o <<"<", "/">> \o KlassNames[c] \o <<">", "\n">>

InitComponent ==
    /\ op = "none"
    /\ out = <<>>
    /\ \E o \in 1..Len(KlassNames), c \in 1..Len(KlassNames), attrs \in AttrSeqs :
           /\ slice = ComponentText(o, c, attrs)
           /\ meta = [kind |-> "component", open |-> o, close |-> c, attrs |-> attrs]

CallComponent ==
    /\ op = "none"
    /\ op' = "component"
    /\ out' = component(slice, 1)
    /\ UNCHANGED <<slice, meta>>

NextComponent == CallComponent

SpecComponent == InitComponent /\ [][NextComponent]_vars

(* The attribute mapping a list of attribute choices denotes: for each     *)
(* name the tensor of its last occurrence.                                 *)
LastOf(attrs, n) ==
    CHOOSE k \in 1..Len(attrs) :
        /\ attrs[k][1] = n
        /\ \A j \in (k + 1)..Len(attrs) : attrs[j][1] # n

ExpectedAttributes(attrs) ==
    [nm \in {AttrNames[attrs[k][1]] : k \in 1..Len(attrs)} |->
        LET n == CHOOSE n \in 1..Len(AttrNames) : AttrNames[n] = nm
        IN  AttrTensors[attrs[LastOf(attrs, n)][2]].val]

(* C3: component succeeds exactly when the closing tag carries the bytes   *)
(* of the opening class tag (case-sensitive, neither a prefix nor an       *)
(* extension of it); with any other closing tag it is a parse error and    *)
(* yields no Component.                                                    *)
C3_CloseTagMustMatch ==
    op = "component" =>
        /\ KlassNames[meta.close] # KlassNames[meta.open] => out.st = "Error"
        /\ KlassNames[meta.close] = KlassNames[meta.open] =>
               /\ out.st = "Ok"
               /\ out.val.klass = KlassNames[meta.open]
               /\ out.val.attributes = ExpectedAttributes(meta.attrs)

C3_Witness ==
    /\ op = "component"
    /\ KlassNames[meta.open] = <<"F", "o", "o">>
    /\ KlassNames[meta.close] = <<"B", "a", "r">>
    /\ meta.attrs = <<>>
    /\ out.st = "Error"

----------------------------------------------------------------------------
(* Inputs of the envelope parser, laid out from a description:             *)
(*   lead <Nnet3> ws config [<NumComponents> N] block* </Nnet3> trailing   *)
(* so that what the input holds is known without parsing it.               *)

MaxBlocks == 2

(* What precedes the component count.  marker: <NumComponents> N follows   *)
(* the config text; utf8: the config text is valid UTF-8.                  *)
Heads ==
    << [lead |-> <<>>, ws |-> <<"\n", "\n">>,
        config |-> <<"i", "n", " ", "d", "=", "3", "\n">>,
        marker |-> TRUE, utf8 |-> TRUE],
       [lead |-> <<" ", "\n">>, ws |-> <<>>, config |-> <<>>,
        marker |-> TRUE, utf8 |-> TRUE],
       [lead |-> <<>>, ws |-> <<" ">>,
        config |-> <<"a", "<", "b", " ", "<", "N", "u", "m", "\n">>,
        marker |-> TRUE, utf8 |-> TRUE],
       [lead |-> <<>>, ws |-> <<"\n">>, config |-> <<"c", InvalidByte, "\n">>,
        marker |-> TRUE, utf8 |-> FALSE],
       [lead |-> <<>>, ws |-> <<"\n">>,
        config |-> <<"i", "n", " ", "d", "=", "3", "\n">>,
        marker |-> FALSE, utf8 |-> TRUE] >>

(* What follows </Nnet3>.  marker: the trailing bytes are themselves a     *)
(* component count of 0 and a closing tag.                                 *)
Trailings ==
    << [text |-> <<>>, marker |-> FALSE],
       [text |-> <<"\n">>, marker |-> FALSE],
       [text |-> <<" ", "j", "u", "n", "k">>, marker |-> FALSE],
       [text |-> <<"\n">> \o Marker \o <<" ", "0", "\n">>
                 \o <<"<", "/">> \o Nnet3Tag \o <<">">>,
        marker |-> TRUE] >>

ComponentNames == << <<"a">>, <<"T">> >>

(* Component blocks and the components they denote; kind 3 closes with a   *)
(* tag that is not its class tag and denotes none.                         *)
BlockKinds ==
    << [text |-> <<"<", "K", ">", "\n", "<", "/", "K", ">", "\n">>,
        ok |-> TRUE,
        comp |-> [klass |-> <<"K">>, attributes |-> EmptyMap]],
       [text |-> <<"<", "L", ">", " ", "<", "P", ">", " ", "[", "\n", " ",
                   " ", "1", ".", "0", " ", "2", ".", "0", "\n", " ", " ",
                   "3", ".", "0", " ", "4", ".", "0", " ", "]", "\n", "<",
                   "Q", ">", " ", "[", " ", "7", ".", "0", " ", "8", ".",
                   "0", " ", "]", "\n", "<", "P", ">", " ", "3", "\n", "<",
                   "/", "L", ">", "\n">>,
        ok |-> TRUE,
        comp |-> [klass |-> <<"L">>,
                  attributes |->
                      (<<"P">> :> ScalarF32([m |-> 3, e |-> 0]))
                      @@ (<<"Q">> :> tensor1(<<[m |-> 7, e |-> 0], [m |-> 8, e |-> 0]>>))]],
       [text |-> <<"<", "K", ">", " ", "<", "P", ">", " ", "T", " ", "<",
                   "/", "L", ">", "\n">>,
        ok |-> FALSE,
        comp |-> [klass |-> <<>>, attributes |-> EmptyMap]] >>

BlockChoices == [name : 1..Len(ComponentNames), kind : 1..Len(BlockKinds)]

BlockSeqs == UNION {[1..k -> BlockChoices] : k \in 0..MaxBlocks}

DigitChars == <<"0", "1", "2", "3", "4", "5", "6", "7", "8", "9">>

(* The decimal text of n, -9 <= n <= 9.                                    *)
NumText(n) == IF n < 0 THEN <<"-", DigitChars[1 - n]>> ELSE <<DigitChars[n + 1]>>

RECURSIVE BlocksText(_)
BlocksText(bs) ==
    IF bs = <<>> THEN <<>>
    ELSE <<"<">> \o ComponentNameTag \o <<">", " ">> \o ComponentNames[Head(bs).name]
         \o <<" ">> \o BlockKinds[Head(bs).kind].text \o BlocksText(Tail(bs))

(* The input up to and including </Nnet3>.                                 *)
BodyText(h, n, bs) ==
    Heads[h].lead \o <<"<">> \o Nnet3Tag \o <<">">> \o Heads[h].ws \o Heads[h].config
    \o (IF Heads[h].marker THEN Marker \o <<" ">> \o NumText(n) \o <<"\n">> ELSE <<>>)
    \o BlocksText(bs) \o <<"<", "/">> \o Nnet3Tag \o <<">">>

(* meta.marker: the input holds a <NumComponents>; meta.declared and       *)
(* meta.blocks: the count that follows the first one and the blocks        *)
(* between it and the next </Nnet3>.                                       *)
Init ==
    /\ op = "none"
    /\ out = <<>>
    /\ \E h \in 1..Len(Heads), n \in -1..(MaxBlocks + 1), bs \in BlockSeqs,
          tr \in 1..Len(Trailings) :
          /\ ~Heads[h].marker => n = 0
          /\ slice = BodyText(h, n, bs) \o Trailings[tr].text
          /\ meta = [kind |-> "envelope", head |-> h, trailing |-> tr,
                     bodyLen |-> Len(BodyText(h, n, bs)),
                     marker |-> Heads[h].marker \/ Trailings[tr].marker,
                     declared |-> n,
                     blocks |-> IF Heads[h].marker THEN bs ELSE <<>>]

CallParseTopLevel ==
    /\ op = "none"
    /\ op' = "parse_top_level"
    /\ out' = parse_top_level(slice, 1)
    /\ UNCHANGED <<slice, meta>>

CallNnet3 ==
    /\ op = "none"
    /\ op' = "nnet3"
    /\ out' = nnet3(slice)
    /\ UNCHANGED <<slice, meta>>

Next == CallParseTopLevel \/ CallNnet3

Spec == Init /\ [][Next]_vars

----------------------------------------------------------------------------
(* Properties of the envelope parser (Spec)                                *)

Names(bs) == {ComponentNames[bs[k].name] : k \in 1..Len(bs)}

WellFormed(bs) == \A k \in 1..Len(bs) : BlockKinds[bs[k].kind].ok

(* The input is an envelope of the grammar: a valid config text, a count   *)
(* N >= 0 and exactly N well-formed blocks.                                *)
Valid ==
    /\ Heads[meta.head].marker
    /\ Heads[meta.head].utf8
    /\ meta.declared = Len(meta.blocks)
    /\ WellFormed(meta.blocks)

(* The component the last block named nm denotes.                          *)
LastBlock(bs, nm) ==
    LET k == CHOOSE k \in 1..Len(bs) :
                 /\ ComponentNames[bs[k].name] = nm
                 /\ \A j \in (k + 1)..Len(bs) : ComponentNames[bs[j].name] # nm
    IN  BlockKinds[bs[k].kind].comp

(* C1: parse_top_level succeeds only if the number of component blocks     *)
(* between <NumComponents> N and </Nnet3> is exactly N; with fewer or with *)
(* more blocks it is a parse error, never a smaller model.                 *)
C1_CountMustMatch ==
    op = "parse_top_level" =>
        /\ out.st = "Ok" =>
               /\ meta.marker
               /\ WellFormed(meta.blocks)
               /\ Len(meta.blocks) = meta.declared
        /\ meta.marker /\ Len(meta.blocks) # meta.declared => out.st = "Error"

C1_Witness ==
    /\ op = "parse_top_level"
    /\ Heads[meta.head].marker
    /\ Heads[meta.head].utf8
    /\ WellFormed(meta.blocks)
    /\ Len(meta.blocks) = 1
    /\ meta.declared = 2
    /\ out.st = "Error"

(* C2 (as claimed): on every valid envelope parse_top_level succeeds and   *)
(* the components mapping has as many entries as the declared count N.     *)
C2_EntriesEqualDeclared ==
    op = "parse_top_level" /\ Valid =>
        /\ out.st = "Ok"
        /\ Cardinality(DOMAIN out.val.components) = meta.declared

(* C2 (amended): on every valid envelope parse_top_level succeeds and the  *)
(* components mapping has one entry for each distinct component name among *)
(* the N blocks: N entries when the names are pairwise distinct, fewer     *)
(* when a name repeats.                                                    *)
C2_EntriesEqualDistinctNames ==
    op = "parse_top_level" /\ Valid =>
        /\ out.st = "Ok"
        /\ DOMAIN out.val.components = Names(meta.blocks)
        /\ Cardinality(DOMAIN out.val.components) <= meta.declared
        /\ Cardinality(Names(meta.blocks)) = Len(meta.blocks) =>
               Cardinality(DOMAIN out.val.components) = meta.declared

C2_Witness ==
    /\ op = "parse_top_level"
    /\ Valid
    /\ meta.declared = 2
    /\ Cardinality(Names(meta.blocks)) = 1
    /\ out.st = "Ok"
    /\ Cardinality(DOMAIN out.val.components) = 1

IsMarkerAt(s, q) == q + Len(Marker) - 1 <= Len(s) /\ SubSeq(s, q, q + Len(Marker) - 1) = Marker

(* The first index at or after from that holds no white space (one past   *)
(* the end when there is none).                                            *)
FirstNonSpace(s, from) ==
    CHOOSE q \in from..(Len(s) + 1) :
        /\ \A k \in from..(q - 1) : s[k] \in MultiSpace
        /\ q = Len(s) + 1 \/ s[q] \notin MultiSpace

(* C8: on success the config text is exactly the bytes that follow <Nnet3> *)
(* and the white space after it, up to the first <NumComponents>; an input *)
(* without <NumComponents> is a parse error.                               *)
C8_ConfigVerbatim ==
    LET a == FirstNonSpace(slice, 1)
        b == FirstNonSpace(slice, a + Len(Nnet3Tag) + 2)
    IN  op = "parse_top_level" =>
            /\ out.st = "Ok" =>
                   /\ SubSeq(slice, a, a + Len(Nnet3Tag) + 1) = <<"<">> \o Nnet3Tag \o <<">">>
                   /\ \E m \in b..Len(slice) :
                          /\ IsMarkerAt(slice, m)
                          /\ \A q \in b..(m - 1) : ~IsMarkerAt(slice, q)
                          /\ out.val.config_lines = SubSeq(slice, b, m - 1)
            /\ (\A q \in 1..Len(slice) : ~IsMarkerAt(slice, q)) => out.st = "Error"

C8_Witness ==
    /\ op = "parse_top_level"
    /\ out.st = "Ok"
    /\ Heads[meta.head].ws # <<>>
    /\ Trailings[meta.trailing].marker
    /\ out.val.config_lines = Heads[meta.head].config
    /\ out.val.config_lines # <<>>

(* C9: duplicate keys are not rejected and the last occurrence wins: the   *)
(* mapping holds, under each component name, the component of the last     *)
(* block of that name, whose attribute mapping holds, under each attribute *)
(* name, the tensor of the last attribute of that name.                    *)
C9_LastWriterWins ==
    op = "parse_top_level" =>
        /\ Valid => out.st = "Ok"
        /\ out.st = "Ok" =>
               /\ DOMAIN out.val.components = Names(meta.blocks)
               /\ \A nm \in Names(meta.blocks) :
                      out.val.components[nm] = LastBlock(meta.blocks, nm)

C9_Witness ==
    /\ op = "parse_top_level"
    /\ out.st = "Ok"
    /\ Len(meta.blocks) = 2
    /\ meta.blocks[1].name = meta.blocks[2].name
    /\ meta.blocks[1].kind = 1
    /\ meta.blocks[2].kind = 2
    /\ out.val.components[ComponentNames[meta.blocks[1].name]].klass = <<"L">>

====
